---- MODULE Spec2Model ----
(***************************************************************************)
(* A model of src/app.py, a Streamlit dashboard over a table of used       *)
(* vehicle listings.  Streamlit runs the whole script once when a session  *)
(* starts and once more after every widget interaction; what survives      *)
(* from one run to the next is the table held by st.cache_data and the     *)
(* widget values of the session.                                           *)
(*                                                                         *)
(* Representation.                                                         *)
(*  - A string is a sequence of one-character strings.                     *)
(*  - A numeric cell is <<v>>, or NaN == <<>> when the cell is missing.    *)
(*  - A table is run-length encoded: a sequence of blocks, block b         *)
(*    standing for b.n consecutive rows with the same model, price and     *)
(*    odometer.  Only the columns the data preparation reads are kept.     *)
(*  - A percentile bound is held as 100 times its value (the linear        *)
(*    interpolation rule at q = 0.01 and q = 0.99 yields hundredths when   *)
(*    the column holds integers), or NaN.                                  *)
(***************************************************************************)
EXTENDS Integers, Sequences, FiniteSets

\* ------------------------------------------------------------ bounds
\* The prices and the odometer readings of the tables are 1..MaxReading.
MaxReading == 2

\* ------------------------------------------------- program constants
\* Line 47: the least number of listings of a valid manufacturer.
MinListings == 50
\* Line 148: head(10).
TopN == 10

\* ------------------------------------------------------------ values
\* A missing numeric cell, and the bound of a column without values.
NaN == <<>>
\* A missing model cell (the float NaN, which is no string).
NaNModel == <<"NaN">>
\* Python's None: no selection.
None == <<"None">>

isna(x) == x = NaN

Range(s) == {s[i] : i \in DOMAIN s}

MinOf(S) == CHOOSE x \in S : \A y \in S : x <= y

\* ----------------------------------------------------------- strings
Upper == <<"A","B","C","D","E","F","G","H","I","J","K","L","M",
           "N","O","P","Q","R","S","T","U","V","W","X","Y","Z">>
Lower == <<"a","b","c","d","e","f","g","h","i","j","k","l","m",
           "n","o","p","q","r","s","t","u","v","w","x","y","z">>
Digits == <<"0","1","2","3","4","5","6","7","8","9">>

IndexIn(s, c) == CHOOSE i \in DOMAIN s : s[i] = c

Alphabet == Range(Upper) \cup Range(Lower) \cup Range(Digits) \cup {"-", " ", "\t"}

\* The code point of each character, which orders Python strings.
CodePoint ==
    [c \in Alphabet |->
        IF c \in Range(Upper) THEN 64 + IndexIn(Upper, c)
        ELSE IF c \in Range(Lower) THEN 96 + IndexIn(Lower, c)
        ELSE IF c \in Range(Digits) THEN 47 + IndexIn(Digits, c)
        ELSE IF c = "-" THEN 45
        ELSE IF c = " " THEN 32
        ELSE 9]

ord(c) == CodePoint[c]

\* The lower-case form of each character.
LowerCase ==
    [c \in Alphabet |->
        IF c \in Range(Upper) THEN Lower[IndexIn(Upper, c)] ELSE c]

\* str.lower()
lower(s) == [i \in DOMAIN s |-> LowerCase[s[i]]]

\* x.split(' ')[0]: the text before the first space character (the whole
\* text when it holds none, the empty text when it starts with a space).
split_first(x) ==
    LET spaces == {i \in DOMAIN x : x[i] = " "}
    IN  IF spaces = {} THEN x ELSE SubSeq(x, 1, MinOf(spaces) - 1)

\* Python's < on strings.
StrLess(a, b) ==
    \/ \E i \in 1..Len(a) :
          /\ i <= Len(b)
          /\ \A j \in 1..(i - 1) : a[j] = b[j]
          /\ ord(a[i]) < ord(b[i])
    \/ /\ Len(a) < Len(b)
       /\ \A j \in 1..Len(a) : a[j] = b[j]

RECURSIVE sorted(_)
InsertSorted(x, s) ==
    LET before == {i \in 1..Len(s) : StrLess(x, s[i])}
        k == IF before = {} THEN Len(s) + 1 ELSE MinOf(before)
    IN  SubSeq(s, 1, k - 1) \o <<x>> \o SubSeq(s, k, Len(s))

\* sorted(list)
sorted(s) ==
    IF s = <<>> THEN <<>>
    ELSE InsertSorted(s[Len(s)], sorted(SubSeq(s, 1, Len(s) - 1)))

\* The lambda of line 41 on a string.
manufacturer_of(x) == lower(split_first(x))

\* The lambda of line 41 raises AttributeError on a missing model (a float
\* NaN has no split).
raises_AttributeError(x) == x = NaNModel

\* ------------------------------------------------------------ tables
RECURSIVE len(_)
\* len(df): the number of rows.
len(df) == IF df = <<>> THEN 0 ELSE Head(df).n + len(Tail(df))

\* df[df[col] == v]
where_eq(df, col, v) == SelectSeq(df, LAMBDA r : r[col] = v)

\* df[col].unique(): the distinct values, in order of first appearance.
RECURSIVE unique(_, _)
unique(df, col) ==
    IF df = <<>> THEN <<>>
    ELSE LET rest == unique(SubSeq(df, 1, Len(df) - 1), col)
             v == df[Len(df)][col]
         IN  IF v \in Range(rest) THEN rest ELSE Append(rest, v)

\* df[col].value_counts()[v]
count_of(df, col, v) == len(where_eq(df, col, v))

\* df[col].value_counts().index: the distinct values by descending count.
\* pandas leaves the order among equal counts open (it sorts the counts
\* with an unstable sort), so every order of descending count is a
\* possible outcome.
value_counts(df, col) ==
    LET vals == Range(unique(df, col))
        k == Cardinality(vals)
    IN  {s \in [1..k -> vals] :
            /\ \A i, j \in 1..k : i < j => s[i] # s[j]
            /\ \A i, j \in 1..k :
                  i < j => count_of(df, col, s[i]) >= count_of(df, col, s[j])}

\* index.head(n)
head(s, n) == SubSeq(s, 1, IF Len(s) < n THEN Len(s) ELSE n)

\* df[df[col].notna()]
dropna(df, col) == SelectSeq(df, LAMBDA r : ~isna(r[col]))

\* The k-th smallest (k from 0) cell of a column without missing cells.
order_statistic(present, col, k) ==
    CHOOSE v \in {r[col][1] : r \in Range(present)} :
        /\ len(SelectSeq(present, LAMBDA r : r[col][1] < v)) <= k
        /\ k < len(SelectSeq(present, LAMBDA r : r[col][1] <= v))

\* As interpolate with the two weights exchanged.
interpolate_swapped(present, col, count, pos) ==
    100 * order_statistic(present, col,
              IF pos \div 100 + 1 < count THEN pos \div 100 + 1
              ELSE pos \div 100)
    - (order_statistic(present, col,
           IF pos \div 100 + 1 < count THEN pos \div 100 + 1
           ELSE pos \div 100)
       - order_statistic(present, col, pos \div 100)) * (pos % 100)

\* Linear interpolation between the order statistics around position
\* pos / 100 of count cells, times 100.
interpolate(present, col, count, pos) ==
    100 * order_statistic(present, col, pos \div 100)
    + (order_statistic(present, col,
           IF pos \div 100 + 1 < count THEN pos \div 100 + 1
           ELSE pos \div 100)
       - order_statistic(present, col, pos \div 100)) * (pos % 100)

\* The quantile of the count cells of a column without missing cells.
quantile_of(present, col, count, q) ==
    IF count = 0 THEN NaN
    ELSE <<interpolate(present, col, count, (count - 1) * q)>>

\* df[col].quantile(q / 100), times 100: missing cells are skipped; the
\* result of an all-missing (or empty) column is NaN; otherwise linear
\* interpolation between the order statistics around (count - 1) * q / 100.
quantile(df, col, q) ==
    quantile_of(dropna(df, col), col, len(dropna(df, col)), q)

\* cell >= bound and cell <= bound, false when either side is NaN.
ge(x, bound) == ~isna(x) /\ ~isna(bound) /\ 100 * x[1] >= bound[1]
le(x, bound) == ~isna(x) /\ ~isna(bound) /\ 100 * x[1] <= bound[1]

\* car_data['manufacturer'] = car_data['model'].apply(lambda ...)
with_manufacturer(car_data) ==
    [i \in DOMAIN car_data |->
        [model |-> car_data[i].model, price |-> car_data[i].price,
         odometer |-> car_data[i].odometer, n |-> car_data[i].n,
         manufacturer |-> manufacturer_of(car_data[i].model)]]

\* As valid_manufacturers_of with the threshold off by one (> 50).
valid_manufacturers_above(car_data) ==
    {m \in Range(unique(car_data, "manufacturer")) :
        count_of(car_data, "manufacturer", m) > MinListings}

\* manufacturer_counts_full[manufacturer_counts_full >= 50].index
valid_manufacturers_of(car_data) ==
    {m \in Range(unique(car_data, "manufacturer")) :
        count_of(car_data, "manufacturer", m) >= MinListings}

\* The row mask of lines 50-54.
row_mask(r, b) ==
    /\ ge(r.price, b.price_low) /\ le(r.price, b.price_high)
    /\ ~isna(r.odometer)
    /\ ge(r.odometer, b.odometer_low) /\ le(r.odometer, b.odometer_high)
    /\ r.manufacturer \in b.valid_manufacturers

\* df[df['manufacturer'].isin(values)]
isin(df, values) == SelectSeq(df, LAMBDA r : r.manufacturer \in values)

\* ------------------------------------------------------------- state
VARIABLES
    cache,                \* the table st.cache_data holds for load_data()
    ran,                  \* whether the script has run in this session
    session_state,        \* the widget values, by widget key
    price_low, price_high, odometer_low, odometer_high,
    valid_manufacturers,
    df_filtered_general,
    manufacturer_list,
    top_manufacturers, df_top_manufacturers,
    manufacturer_1, manufacturer_2, df_compare,
    rendered,             \* the charts and the warning of the last run
    exception             \* the exception that ended the last run, or "none"

vars == <<cache, ran, session_state, price_low, price_high, odometer_low,
          odometer_high, valid_manufacturers, df_filtered_general,
          manufacturer_list, top_manufacturers, df_top_manufacturers,
          manufacturer_1, manufacturer_2, df_compare, rendered, exception>>

Ford == <<"f","o","r","d">>
Chevrolet == <<"c","h","e","v","r","o","l","e","t">>

\* ------------------------------------------------------------ script
\* As load_data when the filtered table of a run replaces the cached one.
load_data_filtered == IF ran THEN df_filtered_general ELSE cache

\* load_data(): st.cache_data hands every run its own copy of the table
\* read from the file, so a run always starts from the full table.
load_data == cache

\* Lines 32-35.
percentile_bounds(car_data) ==
    [price_low |-> quantile(car_data, "price", 1),
     price_high |-> quantile(car_data, "price", 99),
     odometer_low |-> quantile(car_data, "odometer", 1),
     odometer_high |-> quantile(car_data, "odometer", 99)]

\* The operands of the row mask: the bounds pb and the manufacturers of
\* at least 50 rows of df, the full table with its manufacturer column.
mask_operands(pb, df) ==
    [price_low |-> pb.price_low, price_high |-> pb.price_high,
     odometer_low |-> pb.odometer_low, odometer_high |-> pb.odometer_high,
     valid_manufacturers |-> valid_manufacturers_of(df)]

\* As filter_rows when the mask also keeps only the manufacturer chosen
\* in the first selector.
filter_rows_selected(df, b) ==
    SelectSeq(df, LAMBDA r :
        /\ row_mask(r, b)
        /\ \/ session_state.manufacturer_1_select = None
           \/ r.manufacturer = session_state.manufacturer_1_select)

\* Lines 49-55: car_data[mask].copy()
filter_rows(df, b) == SelectSeq(df, LAMBDA r : row_mask(r, b))

\* As manufacturer_list_of without sorted().
manufacturer_list_unsorted(filtered) == unique(filtered, "manufacturer")

\* Lines 58-59: sorted(df_filtered_general['manufacturer'].unique().tolist())
manufacturer_list_of(filtered) == sorted(unique(filtered, "manufacturer"))

\* What lines 45-59 leave: the operands b of the mask and the table
\* filtered by it.
prepared(b, filtered) ==
    [bounds |-> b,
     df_filtered_general |-> filtered,
     manufacturer_list |-> manufacturer_list_of(filtered),
     exception |-> "none"]

\* What a run ended at line 40 leaves: the bounds of lines 32-35 only.
ended_at_line_40(pb) ==
    [bounds |-> [price_low |-> pb.price_low, price_high |-> pb.price_high,
                 odometer_low |-> pb.odometer_low,
                 odometer_high |-> pb.odometer_high,
                 valid_manufacturers |-> {}],
     df_filtered_general |-> <<>>,
     manufacturer_list |-> <<>>,
     exception |-> "AttributeError"]

\* Lines 45-55 on df, the full table with its manufacturer column.
filter_general(b, df) == prepared(b, filter_rows(df, b))

\* Lines 32-59: the bounds, the manufacturer column, the filtered table and
\* the option list.  A missing model ends the run at line 40.
prepare(car_data) ==
    IF \E i \in DOMAIN car_data : raises_AttributeError(car_data[i].model)
    THEN ended_at_line_40(percentile_bounds(car_data))
    ELSE filter_general(
             mask_operands(percentile_bounds(car_data),
                           with_manufacturer(car_data)),
             with_manufacturer(car_data))

\* list.index(x) if x in list else otherwise (positions from 0)
index_or(list, x, otherwise) ==
    IF x \in Range(list) THEN MinOf({i \in DOMAIN list : list[i] = x}) - 1
    ELSE otherwise

\* What st.selectbox returns when it does not raise: the session's choice
\* for the key, else options[index], else None without options.
selected(options, index, choice) ==
    IF choice # None THEN choice
    ELSE IF Len(options) = 0 THEN None
    ELSE options[index + 1]

\* st.selectbox(label, options, index, key) raises when the options are
\* not empty and index is no position of them.
selectbox_raises(options, index) ==
    Len(options) > 0 /\ ~(0 <= index /\ index < Len(options))

\* Python's truth value of a selection: None and '' are false.
truthy(m) == m # None /\ m # <<>>

\* Line 207: the condition of the comparison chart.
shows_violin(m1, m2) == truthy(m1) /\ truthy(m2) /\ m1 # m2

\* Line 239: the condition of the warning, reached when line 207 is false.
shows_warning(m1, m2) == ~shows_violin(m1, m2) /\ m1 = m2

\* The charts of the three checkboxes (lines 70, 109, 141).
checkbox_charts(ss) ==
    (IF ss.hist_checkbox THEN {"histogram"} ELSE {})
    \cup (IF ss.scatter_checkbox THEN {"scatter"} ELSE {})
    \cup (IF ss.manufacturer_type_hist_checkbox
          THEN {"type_histogram"} ELSE {})

\* Lines 141-151: top is manufacturer_counts.head(10).index.
type_histogram(df, ss, top) ==
    IF ss.manufacturer_type_hist_checkbox
    THEN [top_manufacturers |-> top,
          df_top_manufacturers |-> isin(df, Range(top))]
    ELSE [top_manufacturers |-> <<>>, df_top_manufacturers |-> <<>>]

\* Lines 207-241 for the selections m1 and m2.
comparison(df, ss, th, m1, m2) ==
    [top_manufacturers |-> th.top_manufacturers,
     df_top_manufacturers |-> th.df_top_manufacturers,
     manufacturer_1 |-> m1,
     manufacturer_2 |-> m2,
     df_compare |-> IF shows_violin(m1, m2) THEN isin(df, {m1, m2})
                    ELSE <<>>,
     rendered |->
         checkbox_charts(ss)
         \cup (IF shows_violin(m1, m2) THEN {"violin"} ELSE {})
         \cup (IF shows_warning(m1, m2) THEN {"warning"} ELSE {}),
     exception |-> "none"]

\* What a run ended by the selectbox of line 198 leaves.
ended_at_line_198(ss, th, m1) ==
    [top_manufacturers |-> th.top_manufacturers,
     df_top_manufacturers |-> th.df_top_manufacturers,
     manufacturer_1 |-> m1,
     manufacturer_2 |-> None,
     df_compare |-> <<>>,
     rendered |-> checkbox_charts(ss),
     exception |-> "StreamlitAPIException"]

\* Lines 186-241 over the option list.
selectors(df, list, ss, th) ==
    IF selectbox_raises(list, index_or(list, Chevrolet, 1))
    THEN ended_at_line_198(ss, th,
             selected(list, index_or(list, Ford, 0),
                      ss.manufacturer_1_select))
    ELSE comparison(df, ss, th,
             selected(list, index_or(list, Ford, 0),
                      ss.manufacturer_1_select),
             selected(list, index_or(list, Chevrolet, 1),
                      ss.manufacturer_2_select))

\* Lines 62-241 after prepare() returned p without an exception: ss holds
\* the widget values, vc is manufacturer_counts.index of line 145.
charts(p, ss, vc) ==
    selectors(p.df_filtered_general, p.manufacturer_list, ss,
              type_histogram(p.df_filtered_general, ss, head(vc, TopN)))

\* What a run ended by the exception of line 40 leaves of lines 62-241.
no_charts ==
    [top_manufacturers |-> <<>>, df_top_manufacturers |-> <<>>,
     manufacturer_1 |-> None, manufacturer_2 |-> None, df_compare |-> <<>>,
     rendered |-> {}, exception |-> "AttributeError"]

\* The outcomes of manufacturer_counts.index at line 145, when the run
\* gets there.
manufacturer_counts(p, ss) ==
    IF p.exception = "none" /\ ss.manufacturer_type_hist_checkbox
    THEN value_counts(p.df_filtered_general, "manufacturer")
    ELSE {<<>>}

\* The script's globals after a run: p from lines 32-59, c from 62-241.
Globals(p, c, ss) ==
    /\ session_state' = ss
    /\ ran' = TRUE
    /\ cache' = cache
    /\ price_low' = p.bounds.price_low
    /\ price_high' = p.bounds.price_high
    /\ odometer_low' = p.bounds.odometer_low
    /\ odometer_high' = p.bounds.odometer_high
    /\ valid_manufacturers' = p.bounds.valid_manufacturers
    /\ df_filtered_general' = p.df_filtered_general
    /\ manufacturer_list' = p.manufacturer_list
    /\ top_manufacturers' = c.top_manufacturers
    /\ df_top_manufacturers' = c.df_top_manufacturers
    /\ manufacturer_1' = c.manufacturer_1
    /\ manufacturer_2' = c.manufacturer_2
    /\ df_compare' = c.df_compare
    /\ rendered' = c.rendered
    /\ exception' = c.exception

Script(p, ss) ==
    \E vc \in manufacturer_counts(p, ss) :
        Globals(p, IF p.exception = "none" THEN charts(p, ss, vc)
                   ELSE no_charts, ss)

\* One run of the script under the widget values ss.
Run(ss) == Script(prepare(load_data), ss)

\* ---------------------------------------------------------- sessions
\* The file as pd.read_csv yields it.
FordF150 == <<"F","o","r","d"," ","F","-","1","5","0">>
ChevroletTahoe == <<"c","h","e","v","r","o","l","e","t"," ","t","a","h","o","e">>
BmwX5 == <<" ","b","m","w"," ","x","5">>
Models == {FordF150, ChevroletTahoe, BmwX5, NaNModel}
Cells == {NaN} \cup {<<v>> : v \in 1..MaxReading}
RunLengths == {1, MinListings - 1, MinListings}
Blocks == [model : Models, price : Cells, odometer : Cells, n : RunLengths]
\* The tables of at most two blocks.
Tables ==
    {<<>>} \cup {<<a>> : a \in Blocks} \cup {<<a, b>> : a, b \in Blocks}

NoWidgets ==
    [hist_checkbox |-> FALSE, scatter_checkbox |-> FALSE,
     manufacturer_type_hist_checkbox |-> FALSE,
     manufacturer_1_select |-> None, manufacturer_2_select |-> None]

Init ==
    /\ cache \in Tables
    /\ ran = FALSE
    /\ session_state = NoWidgets
    /\ price_low = NaN /\ price_high = NaN
    /\ odometer_low = NaN /\ odometer_high = NaN
    /\ valid_manufacturers = {}
    /\ df_filtered_general = <<>>
    /\ manufacturer_list = <<>>
    /\ top_manufacturers = <<>> /\ df_top_manufacturers = <<>>
    /\ manufacturer_1 = None /\ manufacturer_2 = None /\ df_compare = <<>>
    /\ rendered = {}
    /\ exception = "none"

\* The session starts: the first run, every widget at its default.
FirstRun ==
    /\ ~ran
    /\ Run(session_state)

\* The checkboxes exist once a run got past line 40.
ToggleHistogram ==
    /\ ran /\ exception # "AttributeError"
    /\ Run([session_state EXCEPT !.hist_checkbox = ~@])

ToggleScatter ==
    /\ ran /\ exception # "AttributeError"
    /\ Run([session_state EXCEPT !.scatter_checkbox = ~@])

ToggleTypeHistogram ==
    /\ ran /\ exception # "AttributeError"
    /\ Run([session_state EXCEPT !.manufacturer_type_hist_checkbox = ~@])

\* The first selector exists once a run got past line 40; the user picks
\* another of its options.
SelectManufacturer1 ==
    /\ ran /\ exception # "AttributeError"
    /\ \E m \in Range(manufacturer_list) :
          /\ m # manufacturer_1
          /\ Run([session_state EXCEPT !.manufacturer_1_select = m])

\* The second selector exists when the last run built it without raising.
SelectManufacturer2 ==
    /\ ran /\ exception = "none"
    /\ \E m \in Range(manufacturer_list) :
          /\ m # manufacturer_2
          /\ Run([session_state EXCEPT !.manufacturer_2_select = m])

Next ==
    \/ FirstRun
    \/ ToggleHistogram
    \/ ToggleScatter
    \/ ToggleTypeHistogram
    \/ SelectManufacturer1
    \/ SelectManufacturer2

Spec == Init /\ [][Next]_vars

\* ------------------------------------------------------------ claims
\* The last run got past line 59: the filtered table and the option list
\* exist.
Filtered == ran /\ exception # "AttributeError"

\* The last run got to its end.
Completed == ran /\ exception = "none"

\* The full table with the manufacturer of every row.
FullTable == with_manufacturer(cache)

RECURSIVE RowCount(_, _)
\* The number of rows of the blocks of df at the positions S.
RowCount(df, S) ==
    IF S = {} THEN 0
    ELSE LET i == CHOOSE i \in S : TRUE
         IN  df[i].n + RowCount(df, S \ {i})

\* The number of rows of df equal to the row r.
RowsEqual(df, r) == RowCount(df, {i \in DOMAIN df : df[i] = r})

\* The number of listings of manufacturer m in the full table.
Listings(m) ==
    RowCount(cache, {i \in DOMAIN cache : FullTable[i].manufacturer = m})

\* low <= x <= high, with x a cell and low, high bounds (times 100).
Within(x, low, high) ==
    /\ x # NaN /\ low # NaN /\ high # NaN
    /\ low[1] <= 100 * x[1] /\ 100 * x[1] <= high[1]

\* The three predicates of the Row Filter on a row of the full table.
Passes(r) ==
    /\ Within(r.price, price_low, price_high)
    /\ Within(r.odometer, odometer_low, odometer_high)
    /\ Listings(r.manufacturer) >= MinListings

\* C1: the filtered table holds rows of the full table only, and of every
\* row of the full table it holds all copies when the row satisfies the
\* three predicates and none when it does not.
C1_FilterExact ==
    Filtered =>
        /\ Range(df_filtered_general) \subseteq Range(FullTable)
        /\ \A r \in Range(FullTable) :
              RowsEqual(df_filtered_general, r)
                  = IF Passes(r) THEN RowsEqual(FullTable, r) ELSE 0

\* C1 witness: a non-empty filtered table beside a row left out only for
\* its manufacturer's count, its price and odometer being within the bounds.
C1_Witness ==
    /\ Filtered
    /\ df_filtered_general # <<>>
    /\ \E r \in Range(FullTable) :
          /\ Within(r.price, price_low, price_high)
          /\ Within(r.odometer, odometer_low, odometer_high)
          /\ Listings(r.manufacturer) < MinListings
          /\ r \notin Range(df_filtered_general)

\* The first whitespace-delimited token of a string, lower-cased, or
\* "unknown" when the string holds no token or is missing.
Whitespace == {" ", "\t"}
Unknown == <<"u","n","k","n","o","w","n">>
FirstToken(x) ==
    LET starts == {i \in DOMAIN x : x[i] \notin Whitespace}
        from == MinOf(starts)
        stops == {i \in DOMAIN x : i > from /\ x[i] \in Whitespace}
        to == IF stops = {} THEN Len(x) ELSE MinOf(stops) - 1
    IN  IF x = NaNModel \/ starts = {} THEN Unknown
        ELSE lower(SubSeq(x, from, to))

\* C2: no run ends in the Manufacturer Deriver, and every row carries the
\* lower-cased first whitespace-delimited token of its model, "unknown"
\* for a missing or empty model.
C2_DeriverTotal ==
    ran =>
        /\ exception # "AttributeError"
        /\ \A r \in Range(df_filtered_general) :
              r.manufacturer = FirstToken(r.model)

\* The number of rows of manufacturer m in the filtered table.
FilteredListings(m) ==
    RowCount(df_filtered_general,
             {i \in DOMAIN df_filtered_general :
                 df_filtered_general[i].manufacturer = m})

FilteredManufacturers ==
    {df_filtered_general[i].manufacturer : i \in DOMAIN df_filtered_general}

\* C3: the manufacturers of the vehicle-type histogram are min(10, number
\* of manufacturers of the filtered table) many, by descending count over
\* the filtered table and, among equal counts, by ascending name.
C3_TopByCountThenName ==
    ("type_histogram" \in rendered) =>
        /\ Len(top_manufacturers)
               = (IF Cardinality(FilteredManufacturers) < TopN
                  THEN Cardinality(FilteredManufacturers) ELSE TopN)
        /\ Range(top_manufacturers) \subseteq FilteredManufacturers
        /\ \A i, j \in DOMAIN top_manufacturers :
              i < j =>
                  \/ FilteredListings(top_manufacturers[i])
                         > FilteredListings(top_manufacturers[j])
                  \/ /\ FilteredListings(top_manufacturers[i])
                            = FilteredListings(top_manufacturers[j])
                     /\ StrLess(top_manufacturers[i], top_manufacturers[j])

\* C4: in a run that got to its end, equal selections give the warning
\* and no chart, the chart is drawn exactly when the selections are two
\* different manufacturers of the option list, and never both appear.
C4_ChartIffDifferent ==
    Completed =>
        /\ manufacturer_1 = manufacturer_2 =>
              "warning" \in rendered /\ "violin" \notin rendered
        /\ "violin" \in rendered <=>
              /\ manufacturer_1 # manufacturer_2
              /\ manufacturer_1 \in Range(manufacturer_list)
              /\ manufacturer_2 \in Range(manufacturer_list)
        /\ ~("violin" \in rendered /\ "warning" \in rendered)

\* C5: across runs the four bounds and the valid manufacturers stay what
\* the first run found, and every run's bounds are the quantiles of the
\* full table the cache holds.
C5_BoundsFromFullTable ==
    [][/\ ran =>
              /\ price_low' = price_low /\ price_high' = price_high
              /\ odometer_low' = odometer_low
              /\ odometer_high' = odometer_high
              /\ valid_manufacturers' = valid_manufacturers
       /\ price_low' = quantile(cache, "price", 1)
       /\ price_high' = quantile(cache, "price", 99)
       /\ odometer_low' = quantile(cache, "odometer", 1)
       /\ odometer_high' = quantile(cache, "odometer", 99)]_vars

\* C5 witness: after an interaction, a run whose filter left out some rows
\* of the full table and kept others.
C5_Witness ==
    /\ Filtered
    /\ session_state.hist_checkbox /\ session_state.scatter_checkbox
    /\ df_filtered_general # <<>>
    /\ len(df_filtered_general) < len(cache)

\* C6 as stated: the option list is ascending, without duplicates, and
\* holds exactly the manufacturers of at least 50 listings of the full
\* table.
C6_ListIsFrequentManufacturers ==
    Filtered =>
        /\ \A i, j \in DOMAIN manufacturer_list :
              i < j => StrLess(manufacturer_list[i], manufacturer_list[j])
        /\ Range(manufacturer_list)
               = {m \in {FullTable[i].manufacturer : i \in DOMAIN cache} :
                     Listings(m) >= MinListings}

\* C6 as amended: the option list is ascending, without duplicates, and
\* holds exactly the manufacturers of the rows of the filtered table.
C6_ListIsFilteredManufacturers ==
    Filtered =>
        /\ \A i, j \in DOMAIN manufacturer_list :
              i < j => StrLess(manufacturer_list[i], manufacturer_list[j])
        /\ Range(manufacturer_list) = FilteredManufacturers

\* C6 witness: an option list of two manufacturers that first appear in
\* the table in descending order of name.
C6_Witness ==
    /\ Filtered
    /\ Len(manufacturer_list) = 2
    /\ Len(df_filtered_general) = 2
    /\ StrLess(df_filtered_general[2].manufacturer,
               df_filtered_general[1].manufacturer)

\* The non-missing cells of a column of the full table.
Present(col) == {cache[i][col][1] : i \in {j \in DOMAIN cache : cache[j][col] # NaN}}

BoundsWithin(col, low, high) ==
    Present(col) # {} =>
        /\ low # NaN /\ high # NaN
        /\ low[1] <= high[1]
        /\ \E v \in Present(col) : 100 * v <= low[1]
        /\ \E v \in Present(col) : high[1] <= 100 * v

\* C7: for price and for odometer, when the column holds a value, the low
\* bound is at most the high bound and both lie between the least and the
\* greatest value of the column.
C7_BoundsOrdered ==
    ran =>
        /\ BoundsWithin("price", price_low, price_high)
        /\ BoundsWithin("odometer", odometer_low, odometer_high)

\* C7 witness: price bounds found by interpolation, strictly inside the
\* range of the prices and apart from each other.
C7_Witness ==
    /\ ran
    /\ price_low # NaN /\ price_high # NaN
    /\ price_low[1] < price_high[1]
    /\ \A v \in Present("price") : 100 * v # price_low[1]
    /\ \A v \in Present("price") : 100 * v # price_high[1]

\* C8: a run over a table whose price or odometer column holds no value
\* ends that computation with EmptyColumnError, reported as "insufficient
\* data".
C8_EmptyColumnReported ==
    (ran /\ (Present("price") = {} \/ Present("odometer") = {})) =>
        \/ exception = "EmptyColumnError"
        \/ "insufficient data" \in rendered

\* C9: a run that built the filtered table gets to its end, and the
\* default index of each selector is a position of a non-empty option
\* list.
C9_RunCompletes ==
    Filtered =>
        /\ exception = "none"
        /\ manufacturer_list # <<>> =>
              /\ index_or(manufacturer_list, Ford, 0) < Len(manufacturer_list)
              /\ index_or(manufacturer_list, Chevrolet, 1)
                     < Len(manufacturer_list)

\* C10: once the filtered table exists, no interaction changes it, the
\* bounds or the option list.
C10_InteractionsReadOnly ==
    [][ran =>
          /\ df_filtered_general' = df_filtered_general
          /\ manufacturer_list' = manufacturer_list
          /\ price_low' = price_low /\ price_high' = price_high
          /\ odometer_low' = odometer_low
          /\ odometer_high' = odometer_high]_vars

\* C10 witness: both histograms and the comparison chart drawn from the
\* filtered table after the user changed a selector.
C10_Witness ==
    /\ Completed
    /\ {"type_histogram", "scatter", "violin"} \subseteq rendered
    /\ session_state.manufacturer_1_select # None
    /\ df_top_manufacturers # <<>>
    /\ df_compare # <<>>

====
